---- MODULE Spec2Model ----
(***************************************************************************)
(* A model of the xknx 2-byte signed datapoint transcoders (dpt_8.py), the *)
(* raw and scaling remote values (remote_value_raw.py,                     *)
(* remote_value_scaling.py) and the group communication helpers            *)
(* (tools/group_communication.py).                                         *)
(*                                                                         *)
(* Python floats are IEEE-754 binary64.  They are modelled exactly: a      *)
(* finite float is sign * man * 2^exp with man a 53-bit natural number     *)
(* kept as a sequence of 13-bit limbs (least significant first), so that   *)
(* no intermediate product exceeds 31 bits.  Every float operation the     *)
(* code performs (/, *, int(), round()) is computed on that representation *)
(* with round-to-nearest-even, as the hardware does.                       *)
(***************************************************************************)
EXTENDS Integers, Sequences, FiniteSets, TLC

(***************************************************************************)
(* Natural numbers of arbitrary size: sequences of limbs, least            *)
(* significant limb first, without leading (high) zero limbs.  The         *)
(* operators are written without recursion (carries by look-ahead).        *)
(***************************************************************************)
LimbBits == 13

LimbBase == 2^LimbBits

Abs(n) == IF n < 0 THEN -n ELSE n

Sgn(n) == IF n < 0 THEN -1 ELSE 1

Max(S) == CHOOSE x \in S : \A y \in S : y <= x

Limb(a, i) == IF i >= 1 /\ i <= Len(a) THEN a[i] ELSE 0

BTrim(a) ==
    LET nz == {i \in 1..Len(a) : a[i] # 0}
    IN  IF nz = {} THEN <<>> ELSE SubSeq(a, 1, Max(nz))

\* 0 <= n < 2^31
BFromInt(n) ==
    BTrim(<<n % LimbBase, (n \div LimbBase) % LimbBase,
            n \div (LimbBase * LimbBase)>>)

\* a < 2^31
BToInt(a) ==
    Limb(a, 1) + LimbBase * Limb(a, 2) + LimbBase * LimbBase * Limb(a, 3)

BBitLen(a) ==
    IF a = <<>> THEN 0
    ELSE (Len(a) - 1) * LimbBits
         + Cardinality({k \in 0..(LimbBits - 1) : 2^k <= a[Len(a)]})

BCmp(a, b) ==
    IF Len(a) < Len(b) THEN -1
    ELSE IF Len(a) > Len(b) THEN 1
    ELSE LET D == {i \in 1..Len(a) : a[i] # b[i]}
         IN  IF D = {} THEN 0
             ELSE IF a[Max(D)] < b[Max(D)] THEN -1 ELSE 1

BAdd(a, b) ==
    LET n == IF Len(a) > Len(b) THEN Len(a) ELSE Len(b)
        S(j) == Limb(a, j) + Limb(b, j)
        Carry(i) == \E j \in 1..(i - 1) :
                       /\ S(j) >= LimbBase
                       /\ \A k \in (j + 1)..(i - 1) : S(k) = LimbBase - 1
    IN  BTrim([i \in 1..(n + 1) |->
                 (S(i) + (IF Carry(i) THEN 1 ELSE 0)) % LimbBase])

\* a - b for a >= b
BSub(a, b) ==
    LET Borrow(i) == \E j \in 1..(i - 1) :
                        /\ a[j] < Limb(b, j)
                        /\ \A k \in (j + 1)..(i - 1) : a[k] = Limb(b, k)
    IN  BTrim([i \in 1..Len(a) |->
                 (a[i] - Limb(b, i) - (IF Borrow(i) THEN 1 ELSE 0) + LimbBase)
                 % LimbBase])

BShlLimbs(a, n) == IF a = <<>> THEN <<>> ELSE [i \in 1..n |-> 0] \o a

\* a * k for 0 <= k <= LimbBase
BMulSmall(a, k) ==
    BAdd(BTrim([i \in 1..Len(a) |-> (a[i] * k) % LimbBase]),
         BShlLimbs(BTrim([i \in 1..Len(a) |-> (a[i] * k) \div LimbBase]), 1))

\* a * b for a of at most five limbs
BMul(a, b) ==
    LET Col(k) == Limb(a, 1) * Limb(b, k) + Limb(a, 2) * Limb(b, k - 1)
                  + Limb(a, 3) * Limb(b, k - 2) + Limb(a, 4) * Limb(b, k - 3)
                  + Limb(a, 5) * Limb(b, k - 4)
        n == Len(a) + Len(b)
        X == BTrim([k \in 1..n |-> Col(k) % LimbBase])
        Y == BTrim([k \in 1..n |-> (Col(k) \div LimbBase) % LimbBase])
        Z == BTrim([k \in 1..n |-> Col(k) \div (LimbBase * LimbBase)])
    IN  BAdd(X, BAdd(BShlLimbs(Y, 1), BShlLimbs(Z, 2)))

BShl(a, n) ==
    BShlLimbs(BMulSmall(a, 2^(n % LimbBits)), n \div LimbBits)

BShr(a, n) ==
    LET w == n \div LimbBits
        s == n % LimbBits
        lo == 2^s
        hi == 2^(LimbBits - s)
    IN  IF w >= Len(a) THEN <<>>
        ELSE BTrim([i \in 1..(Len(a) - w) |->
                      (a[i + w] \div lo) + (Limb(a, i + w + 1) % lo) * hi])

BBit(a, n) ==
    (Limb(a, (n \div LimbBits) + 1) \div 2^(n % LimbBits)) % 2

\* some bit below position n is set
BLowBits(a, n) == BShl(BShr(a, n), n) # a

BOne == <<1>>

(***************************************************************************)
(* binary64 floats.  cls is "fin", "nan" or "inf"; a finite float is       *)
(* sign * man * 2^exp with man = <<>> (zero) or 2^52 <= man < 2^53.        *)
(* Magnitudes stay far from the overflow and subnormal ranges for every    *)
(* input the model draws, so exp is unbounded here.                        *)
(***************************************************************************)
MantBits == 53

MantLimbs == 5

FZero == [cls |-> "fin", sign |-> 1, man |-> <<>>, exp |-> 0]

FNan == [cls |-> "nan", sign |-> 1, man |-> <<>>, exp |-> 0]

FInf(s) == [cls |-> "inf", sign |-> s, man |-> <<>>, exp |-> 0]

\* the float sign * q * 2^e for 2^52 <= q <= 2^53
FNorm(sign, q, e) ==
    IF BBitLen(q) > MantBits
    THEN [cls |-> "fin", sign |-> sign, man |-> BShr(q, 1), exp |-> e + 1]
    ELSE [cls |-> "fin", sign |-> sign, man |-> q, exp |-> e]

\* n has s bits too many and q is n without them: round on the dropped bits
FRoundBits(sign, n, e, sticky, s, q) ==
    IF BBit(n, s - 1) = 1
       /\ (sticky \/ BLowBits(n, s - 1) \/ BBit(q, 0) = 1)
    THEN FNorm(sign, BAdd(q, BOne), e + s)
    ELSE FNorm(sign, q, e + s)

FRoundLen(sign, n, e, sticky, bl) ==
    IF n = <<>> THEN FZero
    ELSE IF bl <= MantBits
    THEN [cls |-> "fin", sign |-> sign,
          man |-> BShl(n, MantBits - bl), exp |-> e - (MantBits - bl)]
    ELSE FRoundBits(sign, n, e, sticky, bl - MantBits, BShr(n, bl - MantBits))

\* the float nearest to sign * (n + t) * 2^e, 0 <= t < 1, t > 0 iff sticky;
\* ties go to the even mantissa
FRound(sign, n, e, sticky) == FRoundLen(sign, n, e, sticky, BBitLen(n))

\* float(n) for a Python int n
FFromInt(n) == FRound(Sgn(n), BFromInt(Abs(n)), 0, FALSE)

\* a * b
FMul(a, b) ==
    IF a.cls = "nan" \/ b.cls = "nan" THEN FNan
    ELSE IF a.cls = "inf" \/ b.cls = "inf"
    THEN (IF (a.cls = "fin" /\ a.man = <<>>) \/ (b.cls = "fin" /\ b.man = <<>>)
          THEN FNan ELSE FInf(a.sign * b.sign))
    ELSE FRound(a.sign * b.sign, BMul(a.man, b.man), a.exp + b.exp, FALSE)

Min(a, b) == IF a < b THEN a ELSE b

\* the digit c with d * c <= rb < d * (c + 1), at most 2 below qhat
DivDigit(rb, d, qhat) ==
    CHOOSE c \in {x \in {qhat - 2, qhat - 1, qhat} : x >= 0} :
        /\ BCmp(BMulSmall(d, c), rb) <= 0
        /\ BCmp(BMulSmall(d, c + 1), rb) > 0

DivRem(rb, d, q) == [q |-> q, r |-> BSub(rb, BMulSmall(d, q))]

DivShifted(rb, d) ==
    DivRem(rb, d,
           DivDigit(rb, d,
                    Min((Limb(rb, MantLimbs + 1) * LimbBase
                         + Limb(rb, MantLimbs)) \div d[MantLimbs],
                        LimbBase - 1)))

\* one digit of long division: the quotient digit and the remainder of
\* (r * LimbBase) / d, for r < d and d of MantLimbs limbs whose top limb is at
\* least LimbBase / 2, so that the estimate from the top limbs is at most 2
\* too large
DivStep(r, d) == DivShifted(BShlLimbs(r, 1), d)

\* n more digits of r / d, r < d, in front of the digits q (most significant
\* digit last in the sequence)
RECURSIVE DivDigits(_, _, _, _)
DivNext(s, d, n, q) == DivDigits(s.r, d, n - 1, <<s.q>> \o q)

DivDigits(r, d, n, q) ==
    IF n = 0 THEN [q |-> q, r |-> r]
    ELSE IF r = <<>> THEN [q |-> [i \in 1..n |-> 0] \o q, r |-> r]
    ELSE DivNext(DivStep(r, d), d, n, q)

FDivRound(sign, e, q0, dd) ==
    FRound(sign, BTrim(dd.q \o <<q0>>), e, dd.r # <<>>)

\* x / d for mantissas shifted to MantLimbs whole limbs: the leading bit,
\* then MantLimbs digits
FDivMant(sign, e, x, d) ==
    IF BCmp(x, d) >= 0
    THEN FDivRound(sign, e, 1, DivDigits(BSub(x, d), d, MantLimbs, <<>>))
    ELSE FDivRound(sign, e, 0, DivDigits(x, d, MantLimbs, <<>>))

\* a / b for finite b # 0: the quotient of the mantissas to MantLimbs digits
\* after the leading bit, then rounded; a nonzero remainder makes it inexact
FDiv(a, b) ==
    IF a.cls = "nan" THEN FNan
    ELSE IF a.cls = "inf" THEN FInf(a.sign * b.sign)
    ELSE IF a.man = <<>> THEN FZero
    ELSE FDivMant(a.sign * b.sign, a.exp - b.exp - MantLimbs * LimbBits,
                  BShl(a.man, MantLimbs * LimbBits - MantBits),
                  BShl(b.man, MantLimbs * LimbBits - MantBits))

\* int(x) for a finite float x with |x| < 2^31: truncation toward zero
FTrunc(x) ==
    IF x.man = <<>> THEN 0
    ELSE IF x.exp >= 0 THEN x.sign * BToInt(BShl(x.man, x.exp))
    ELSE x.sign * BToInt(BShr(x.man, -x.exp))

\* q is the integer part of man / 2^s: up by one when the fraction is above
\* one half, or is one half and q is odd
FHalfEven(sign, man, s, q) ==
    IF BBit(man, s - 1) = 1 /\ (BLowBits(man, s - 1) \/ q % 2 = 1)
    THEN sign * (q + 1)
    ELSE sign * q

\* round(x) for a finite float x with |x| < 2^31: nearest integer, ties to even
FRoundInt(x) ==
    IF x.man = <<>> THEN 0
    ELSE IF x.exp >= 0 THEN x.sign * BToInt(BShl(x.man, x.exp))
    ELSE FHalfEven(x.sign, x.man, -x.exp, BToInt(BShr(x.man, -x.exp)))

(***************************************************************************)
(* Python values and payloads.                                             *)
(***************************************************************************)
PyInt(n) == [t |-> "int", i |-> n, f |-> FZero]

PyFloat(x) == [t |-> "float", i |-> 0, f |-> x]

\* a string that is not the text of a number
PyStr == [t |-> "str", i |-> 0, f |-> FZero]

PyNone == [t |-> "none", i |-> 0, f |-> FZero]

DPTArray(bytes) == [kind |-> "array", value |-> bytes]

DPTBinary(n) == [kind |-> "binary", value |-> <<n>>]

NoPayload == [kind |-> "none", value |-> <<>>]

\* the outcome of a call: a returned value or a raised exception
Return(v) == [ok |-> TRUE, val |-> v, err |-> "none"]

Raise(e, nothing) == [ok |-> FALSE, val |-> nothing, err |-> e]

\* the builtin float(value)
float(value) ==
    IF value.t = "int" THEN Return(FFromInt(value.i))
    ELSE IF value.t = "float" THEN Return(value.f)
    ELSE IF value.t = "str" THEN Raise("ValueError", FZero)
    ELSE Raise("TypeError", FZero)

\* the builtin int(x) of a float x
int(x) ==
    IF x.cls = "nan" THEN Raise("ValueError", 0)
    ELSE IF x.cls = "inf" THEN Raise("OverflowError", 0)
    ELSE Return(FTrunc(x))

(***************************************************************************)
(* dpt_8.py: DPT2ByteSigned and its subtypes, named by value_type.         *)
(***************************************************************************)
value_min == -32768

value_max == 32767

payload_length == 2

\* the literal 0.01: the float nearest to 1/100, 5764607523034235 * 2^-59
Hundredth ==
    [cls |-> "fin", sign |-> 1, man |-> <<5243, 7536, 6225, 2293, 1>>,
     exp |-> -59]

DPT2ByteSignedTypes ==
    {"2byte_signed", "pulse_2byte_signed", "delta_time_ms", "delta_time_10ms",
     "delta_time_100ms", "delta_time_sec", "delta_time_min", "delta_time_hrs",
     "percentV16", "rotation_angle", "length_m"}

resolution(cls) ==
    IF cls = "delta_time_10ms" THEN PyInt(10)
    ELSE IF cls = "delta_time_100ms" THEN PyInt(100)
    ELSE IF cls = "percentV16" THEN PyFloat(Hundredth)
    ELSE PyInt(1)

\* struct.pack(">h", n) for value_min <= n <= value_max
struct_pack(n) ==
    LET u == (n + 65536) % 65536 IN <<u \div 256, u % 256>>

\* a faulty unpack: the two bytes read as an unsigned integer (">H")
struct_unpack_unsigned(bytes) == bytes[1] * 256 + bytes[2]

\* struct.unpack(">h", bytes)[0] for two bytes
struct_unpack(bytes) ==
    LET u == bytes[1] * 256 + bytes[2]
    IN  IF u >= 32768 THEN u - 65536 ELSE u

\* DPTBase.validate_payload: the payload's bytes, or an error for a payload
\* that is not an array of payload_length bytes
validate_payload(payload) ==
    IF payload.kind = "array" /\ Len(payload.value) = payload_length
    THEN Return(payload.value)
    ELSE Raise("DecodeError", <<>>)

\* the except clause of to_knx: ValueError becomes ConversionError, any other
\* exception passes
to_knx_except(err) ==
    IF err = "ValueError" THEN Raise("ConversionError", NoPayload)
    ELSE Raise(err, NoPayload)

\* to_knx after knx_value = int(...)
to_knx_pack(knx_value) ==
    IF ~knx_value.ok THEN to_knx_except(knx_value.err)
    ELSE IF ~(value_min <= knx_value.val /\ knx_value.val <= value_max)
    THEN to_knx_except("ValueError")
    ELSE Return(DPTArray(struct_pack(knx_value.val)))

\* to_knx after float(value)
to_knx_scale(fv, res) ==
    IF ~fv.ok THEN to_knx_except(fv.err)
    ELSE to_knx_pack(int(FDiv(fv.val, res)))

DPT2ByteSigned_to_knx(cls, value) ==
    to_knx_scale(float(value), float(resolution(cls)).val)

\* from_knx after raw = validate_payload(payload)
from_knx_scale(raw, res) ==
    IF ~raw.ok THEN Raise(raw.err, PyNone)
    ELSE IF res.t = "int"
    THEN Return(PyInt(struct_unpack(raw.val) * res.i))
    ELSE Return(PyFloat(FMul(FFromInt(struct_unpack(raw.val)), res.f)))

DPT2ByteSigned_from_knx(cls, payload) ==
    from_knx_scale(validate_payload(payload), resolution(cls))

(***************************************************************************)
(* remote_value_raw.py and remote_value_scaling.py.  A remote value is a   *)
(* record of its class and the fields its constructor sets.                *)
(***************************************************************************)
RemoteValueRaw(n) ==
    [class |-> "raw", payload_length |-> n, range_from |-> 0, range_to |-> 0]

RemoteValueScaling(from, to) ==
    [class |-> "scaling", payload_length |-> 1,
     range_from |-> from, range_to |-> to]

\* DPTBinary(value): the payload, or TypeError for a value that is no int
DPTBinary_init(value) ==
    IF value.t = "int" THEN Return(DPTBinary(value.i))
    ELSE Raise("TypeError", NoPayload)

\* the bytes of n.to_bytes(length, byteorder="big"), 0 <= n < 256^length
RECURSIVE big_endian(_, _)
big_endian(n, length) ==
    IF length = 0 THEN <<>>
    ELSE Append(big_endian(n \div 256, length - 1), n % 256)

\* a faulty to_bytes: a value that does not fit is wrapped, not refused
to_bytes_wrapping(value, length) ==
    IF value.t # "int" THEN Raise("AttributeError", <<>>)
    ELSE Return(big_endian(value.i % 256^length, length))

\* value.to_bytes(length=length, byteorder="big")
to_bytes(value, length) ==
    IF value.t # "int" THEN Raise("AttributeError", <<>>)
    ELSE IF value.i < 0 \/ value.i >= 256^length
    THEN Raise("OverflowError", <<>>)
    ELSE Return(big_endian(value.i, length))

\* int.from_bytes(bytes, byteorder="big")
RECURSIVE from_bytes(_)
from_bytes(bytes) ==
    IF bytes = <<>> THEN 0
    ELSE 256 * from_bytes(SubSeq(bytes, 1, Len(bytes) - 1)) + bytes[Len(bytes)]

\* the try blocks of RemoteValueRaw.to_knx: any exception of the conversion
\* becomes ConversionError
raw_binary(binary) ==
    IF binary.ok THEN binary ELSE Raise("ConversionError", NoPayload)

raw_array(bytes) ==
    IF bytes.ok THEN Return(DPTArray(bytes.val))
    ELSE Raise("ConversionError", NoPayload)

RemoteValueRaw_to_knx(self, value) ==
    IF self.payload_length = 0 THEN raw_binary(DPTBinary_init(value))
    ELSE raw_array(to_bytes(value, self.payload_length))

\* a faulty from_knx: an array of any length is decoded
RemoteValueRaw_from_knx_any(self, payload) ==
    IF payload.kind = "binary" /\ self.payload_length = 0
    THEN Return(PyInt(payload.value[1]))
    ELSE IF payload.kind = "array"
    THEN Return(PyInt(from_bytes(payload.value)))
    ELSE Raise("CouldNotParseTelegram", PyNone)

RemoteValueRaw_from_knx(self, payload) ==
    IF payload.kind = "binary" /\ self.payload_length = 0
    THEN Return(PyInt(payload.value[1]))
    ELSE IF payload.kind = "array" /\ Len(payload.value) = self.payload_length
    THEN Return(PyInt(from_bytes(payload.value)))
    ELSE Raise("CouldNotParseTelegram", PyNone)

\* round(x) + n is an int; ZeroDivisionError when range_to = range_from
calc_to_knx(range_from, range_to, value) ==
    LET delta == range_to - range_from
    IN  IF delta = 0 THEN Raise("ZeroDivisionError", 0)
        ELSE Return(FRoundInt(FMul(FDiv(FFromInt(value - range_from),
                                        FFromInt(delta)),
                                   FFromInt(255))))

calc_from_knx(range_from, range_to, raw) ==
    LET delta == range_to - range_from
    IN  FRoundInt(FMul(FDiv(FFromInt(raw), FFromInt(255)), FFromInt(delta)))
        + range_from

\* value is an int here; DPTArray(knx_value) of an int is the array of that
\* one element
scaling_array(knx_value) ==
    IF knx_value.ok THEN Return(DPTArray(<<knx_value.val>>))
    ELSE Raise(knx_value.err, NoPayload)

RemoteValueScaling_to_knx(self, value) ==
    scaling_array(calc_to_knx(self.range_from, self.range_to, value.i))

RemoteValueScaling_from_knx(self, payload) ==
    IF payload.kind = "array" /\ Len(payload.value) = 1
    THEN Return(PyInt(calc_from_knx(self.range_from, self.range_to,
                                    payload.value[1])))
    ELSE Raise("CouldNotParseTelegram", PyNone)

to_knx(self, value) ==
    IF self.class = "raw" THEN RemoteValueRaw_to_knx(self, value)
    ELSE RemoteValueScaling_to_knx(self, value)

from_knx(self, payload) ==
    IF self.class = "raw" THEN RemoteValueRaw_from_knx(self, payload)
    ELSE RemoteValueScaling_from_knx(self, payload)

(***************************************************************************)
(* tools/group_communication.py.  The telegram queue xknx.telegrams is a   *)
(* sequence; put_nowait appends to it.  A value_type is the value_type     *)
(* string of a transcoder, "none" for None, or a string no transcoder has. *)
(***************************************************************************)
Telegram(ga, apci, payload) ==
    [destination_address |-> ga, apci |-> apci, payload |-> payload]

\* what a caller passes as value: a Python number, string or None (py), an
\* already encoded payload (payload), or a tuple of bytes (tuple)
ValuePy(v) == [kind |-> "py", py |-> v, pl |-> NoPayload]

ValuePayload(p) == [kind |-> "payload", py |-> PyNone, pl |-> p]

ValueTuple(bytes) == [kind |-> "tuple", py |-> PyNone, pl |-> DPTArray(bytes)]

\* DPTBase.get_dpt(value_type): the registered transcoder, or the lookup error
get_dpt(value_type) ==
    IF value_type \in DPT2ByteSignedTypes THEN Return(value_type)
    ELSE Raise("UnknownTypeError", "none")

parse_dpt(value_type) ==
    IF value_type = "none" THEN Return("none") ELSE get_dpt(value_type)

\* _parse_payload once the transcoder is resolved
transcode(transcoder, value) ==
    IF ~transcoder.ok THEN Raise(transcoder.err, NoPayload)
    ELSE IF transcoder.val # "none"
    THEN DPT2ByteSigned_to_knx(transcoder.val, value.py)
    ELSE IF value.kind = "py" /\ value.py.t = "int"
    THEN DPTBinary_init(value.py)
    ELSE Return(value.pl)

parse_payload(value, value_type) ==
    IF value.kind = "payload" THEN Return(value.pl)
    ELSE transcode(parse_dpt(value_type), value)

\* a faulty helper: the telegram is put on the queue before the payload's
\* conversion is looked at
put_nowait_first(queue, group_address, apci, payload) ==
    [telegrams |-> Append(queue, Telegram(group_address, apci, payload.val)),
     out |-> IF payload.ok THEN Return(NoPayload) ELSE payload]

\* a helper's statements after _parse_payload: the telegram is built and put
\* on the queue.  The queue after the call and the call's outcome.
put_nowait(queue, group_address, apci, payload) ==
    IF ~payload.ok THEN [telegrams |-> queue, out |-> payload]
    ELSE [telegrams |-> Append(queue,
                               Telegram(group_address, apci, payload.val)),
          out |-> Return(NoPayload)]

group_value_read(queue, group_address) ==
    put_nowait(queue, group_address, "GroupValueRead", Return(NoPayload))

group_value_response(queue, group_address, value, value_type) ==
    put_nowait(queue, group_address, "GroupValueResponse",
               parse_payload(value, value_type))

group_value_write(queue, group_address, value, value_type) ==
    put_nowait(queue, group_address, "GroupValueWrite",
               parse_payload(value, value_type))

\* ValueReader.read() sends its read request: the queue after it
send_group_read(queue, group_address) ==
    Append(queue, Telegram(group_address, "GroupValueRead", NoPayload))

\* what read_group_value returns: None, a decoded value (py), or the content
\* of the response's payload (content)
ReadNone == [py |-> PyNone, content |-> NoPayload]

ReadValue(v) == [py |-> v, content |-> NoPayload]

ReadContent(payload) == [py |-> PyNone, content |-> payload]

NoResponse == Telegram("none", "none", NoPayload)

\* a faulty read_group_value: the transcoder is not applied
read_group_value_raw(transcoder, response) ==
    IF response # NoResponse THEN Return(ReadContent(response.payload))
    ELSE Return(ReadNone)

read_value(v) ==
    IF v.ok THEN Return(ReadValue(v.val)) ELSE Raise(v.err, ReadNone)

\* read_group_value after value_reader.read() has returned response
read_group_value(transcoder, response) ==
    IF response # NoResponse
    THEN (IF transcoder # "none"
          THEN read_value(DPT2ByteSigned_from_knx(transcoder,
                                                  response.payload))
          ELSE Return(ReadContent(response.payload)))
    ELSE Return(ReadNone)

(***************************************************************************)
(* Inputs of the transcoders.  An argument names the Python expression a   *)
(* caller passes: an int, the product n * 0.01, a decimal literal num/den, *)
(* or a value that is no finite number.                                    *)
(***************************************************************************)
Span == 30

EdgeSpan == 3

Units ==
    (-Span..Span)
    \cup ((value_max - EdgeSpan)..(value_max + EdgeSpan))
    \cup ((value_min - EdgeSpan)..(value_min + EdgeSpan))
    \cup {40000, -40000}

Tenths == {1, 5, 9}

ArgInt(k) == [form |-> "int", num |-> k, den |-> 1]

ArgProd(n) == [form |-> "prod", num |-> n, den |-> 100]

ArgDec(m, d) == [form |-> "dec", num |-> m, den |-> d]

ArgOther(what) == [form |-> what, num |-> 0, den |-> 1]

Specials == {ArgOther(w) : w \in {"nan", "inf", "-inf", "str", "none"}}

PyValue(a) ==
    CASE a.form = "int" -> PyInt(a.num)
      [] a.form = "prod" -> PyFloat(FMul(FFromInt(a.num), Hundredth))
      [] a.form = "dec" -> PyFloat(FDiv(FFromInt(a.num), FFromInt(a.den)))
      [] a.form = "nan" -> PyFloat(FNan)
      [] a.form = "inf" -> PyFloat(FInf(1))
      [] a.form = "-inf" -> PyFloat(FInf(-1))
      [] a.form = "str" -> PyStr
      [] OTHER -> PyNone

\* the arguments tried on a transcoder: whole multiples of its resolution,
\* values between two multiples, and the values that are no finite number
InputsFor(cls) ==
    LET r == resolution(cls)
    IN  Specials \cup
        (IF r.t = "float"
         THEN {ArgProd(n) : n \in Units}
              \cup {ArgDec(n, 100) : n \in Units}
              \cup {ArgDec(10 * n + t, 1000) : n \in Units, t \in Tenths}
         ELSE IF r.i = 1
         THEN {ArgInt(n) : n \in Units}
              \cup {ArgDec(10 * n + t, 10) : n \in Units, t \in Tenths}
         ELSE {ArgInt(r.i * n) : n \in Units}
              \cup {ArgInt(r.i * n + (r.i \div 10) * t) :
                      n \in Units, t \in Tenths})

(***************************************************************************)
(* Inputs of the remote values and of the group communication helpers.     *)
(***************************************************************************)
MaxPayloadLength == 2

RawSpan == 260

MaxCallbacks == 2

MaxTelegrams == 2

Ranges == {<<0, 100>>, <<100, 0>>, <<0, 255>>, <<-50, 50>>, <<10, 10>>}

RemoteValues ==
    {RemoteValueRaw(n) : n \in 0..MaxPayloadLength}
    \cup {RemoteValueScaling(r[1], r[2]) : r \in Ranges}

\* ints around 0 and around every power of 256 a payload length bounds
RawInts ==
    (-RawSpan..RawSpan) \cup {500}
    \cup {256^k + d : k \in 1..MaxPayloadLength, d \in {-1, 0}}

ValuesFor(self) ==
    IF self.class = "raw"
    THEN {PyInt(n) : n \in RawInts}
         \cup {PyFloat(FFromInt(1)), PyStr, PyNone}
    ELSE {PyInt(n) : n \in -RawSpan..RawSpan}

RECURSIVE BytesOfLength(_, _)
BytesOfLength(B, n) ==
    IF n = 0 THEN {<<>>}
    ELSE {Append(b, x) : b \in BytesOfLength(B, n - 1), x \in B}

\* payloads that arrive from the bus: binary payloads and arrays of every
\* length up to one more than the longest payload_length
WirePayloads ==
    {DPTBinary(b) : b \in {0, 1}}
    \cup {DPTArray(b) : b \in UNION {BytesOfLength({1, 244}, n) :
                                       n \in 0..(MaxPayloadLength + 1)}}
    \cup {DPTArray(<<b>>) : b \in {0, 128, 255}}

GroupAddresses == {"1/2/3"}

ValueTypes == {"none", "percentV16", "delta_time_10ms", "bogus"}

\* the (value, value_type) pairs of the send calls: values a transcoder
\* converts, values it refuses, a value_type without transcoder, and untyped
\* values (an int, a tuple of bytes, a payload)
SendArgs ==
    {<<ValuePy(PyInt(19)), "percentV16">>,
     <<ValuePy(PyInt(19)), "delta_time_10ms">>,
     <<ValuePy(PyInt(400)), "percentV16">>,
     <<ValuePy(PyFloat(FInf(1))), "percentV16">>,
     <<ValuePy(PyNone), "delta_time_10ms">>,
     <<ValuePy(PyInt(19)), "bogus">>,
     <<ValuePy(PyInt(1)), "none">>,
     <<ValueTuple(<<1, 244>>), "none">>,
     <<ValuePayload(DPTArray(<<1, 244>>)), "none">>,
     <<ValuePayload(DPTArray(<<1, 244>>)), "bogus">>}

Responses ==
    {NoResponse}
    \cup {Telegram(ga, apci, p) :
            ga \in GroupAddresses,
            apci \in {"GroupValueResponse"},
            p \in {DPTArray(<<1, 244>>), DPTArray(<<255, 237>>),
                   DPTArray(<<1>>), DPTBinary(1)}}

(***************************************************************************)
(* State.  dpt, arg, enc, dec: a transcoder, an argument and the outcomes  *)
(* of to_knx and from_knx.  rv, tx, rx: a remote value and its last        *)
(* to_knx and from_knx calls; last, cb: its stored value and the arguments *)
(* its update callback was called with.  telegrams: the telegram queue;    *)
(* accepted: the calls that returned normally after enqueueing; res: the   *)
(* outcome of the last helper call; rd: a read_group_value call.           *)
(***************************************************************************)
VARIABLES dpt, arg, enc, dec, stage, rv, tx, rx, last, cb,
          telegrams, accepted, res, rd

vars == <<dpt, arg, enc, dec, stage, rv, tx, rx, last, cb,
          telegrams, accepted, res, rd>>

dptVars == <<dpt, arg, enc, dec>>

rvVars == <<rv, tx, rx, last, cb>>

gcVars == <<telegrams, accepted, res, rd>>

NoOutcome == Raise("not called", NoPayload)

NoValue == Raise("not called", PyNone)

NoCallTx == [value |-> PyNone, out |-> NoOutcome]

NoCallRx == [payload |-> NoPayload, out |-> NoValue]

ReadIdle ==
    [pc |-> "idle", value_type |-> "none", transcoder |-> "none",
     response |-> NoResponse, out |-> Raise("not called", ReadNone)]

IdleDPT ==
    /\ dpt = "2byte_signed"
    /\ arg = ArgInt(0)
    /\ enc = NoOutcome
    /\ dec = NoValue

IdleRV ==
    /\ rv = RemoteValueRaw(0)
    /\ tx = NoCallTx
    /\ rx = NoCallRx
    /\ last = PyNone
    /\ cb = <<>>

IdleGC ==
    /\ telegrams = <<>>
    /\ accepted = <<>>
    /\ res = NoOutcome
    /\ rd = ReadIdle

(***************************************************************************)
(* The transcoders as pure functions: SpecDPT.                             *)
(***************************************************************************)
InitDPT ==
    /\ dpt \in DPT2ByteSignedTypes
    /\ arg \in InputsFor(dpt)
    /\ enc = NoOutcome
    /\ dec = NoValue
    /\ stage = "input"
    /\ IdleRV
    /\ IdleGC

\* cls.to_knx(value)
ToKnx ==
    /\ stage = "input"
    /\ enc' = DPT2ByteSigned_to_knx(dpt, PyValue(arg))
    /\ stage' = "encoded"
    /\ UNCHANGED <<dpt, arg, dec, rvVars, gcVars>>

\* cls.from_knx(payload) of the payload to_knx returned
FromKnx ==
    /\ stage = "encoded"
    /\ enc.ok
    /\ dec' = DPT2ByteSigned_from_knx(dpt, enc.val)
    /\ stage' = "decoded"
    /\ UNCHANGED <<dpt, arg, enc, rvVars, gcVars>>

NextDPT == ToKnx \/ FromKnx

SpecDPT == InitDPT /\ [][NextDPT]_vars

(***************************************************************************)
(* to_knx and from_knx of the remote values as pure functions: SpecCodec.  *)
(***************************************************************************)
InitCodec ==
    /\ rv \in RemoteValues
    /\ tx = NoCallTx
    /\ rx = NoCallRx
    /\ last = PyNone
    /\ cb = <<>>
    /\ stage = "input"
    /\ IdleDPT
    /\ IdleGC

\* self.to_knx(value)
RVToKnx(value) ==
    /\ stage = "input"
    /\ tx' = [value |-> value, out |-> to_knx(rv, value)]
    /\ stage' = "encoded"
    /\ UNCHANGED <<rv, rx, last, cb, dptVars, gcVars>>

\* self.from_knx(payload) of the payload to_knx returned
RVFromKnx ==
    /\ stage = "encoded"
    /\ tx.out.ok
    /\ rx' = [payload |-> tx.out.val, out |-> from_knx(rv, tx.out.val)]
    /\ stage' = "decoded"
    /\ UNCHANGED <<rv, tx, last, cb, dptVars, gcVars>>

\* self.from_knx(payload) of a payload from the bus
RVFromKnxWire(payload) ==
    /\ stage = "input"
    /\ rx' = [payload |-> payload, out |-> from_knx(rv, payload)]
    /\ stage' = "decoded"
    /\ UNCHANGED <<rv, tx, last, cb, dptVars, gcVars>>

NextCodec ==
    \/ \E value \in ValuesFor(rv) : RVToKnx(value)
    \/ RVFromKnx
    \/ \E payload \in WirePayloads : RVFromKnxWire(payload)

SpecCodec == InitCodec /\ [][NextCodec]_vars

(***************************************************************************)
(* A remote value receiving payloads: SpecRV.  RemoteValue stores the      *)
(* value a successful from_knx returns and calls the update callback with  *)
(* it; a failed from_knx changes nothing.                                  *)
(***************************************************************************)
InitRV ==
    /\ rv \in RemoteValues
    /\ tx = NoCallTx
    /\ rx = NoCallRx
    /\ last = PyNone
    /\ cb = <<>>
    /\ stage = "receiving"
    /\ IdleDPT
    /\ IdleGC

\* a faulty update: the callback is called twice
update_value_twice(out, value, log) ==
    IF out.ok THEN [value |-> out.val, log |-> log \o <<out.val, out.val>>]
    ELSE [value |-> value, log |-> log]

\* the stored value and the callback log after from_knx returned out
update_value(out, value, log) ==
    IF out.ok THEN [value |-> out.val, log |-> Append(log, out.val)]
    ELSE [value |-> value, log |-> log]

Received(payload, out) ==
    /\ rx' = [payload |-> payload, out |-> out]
    /\ last' = update_value(out, last, cb).value
    /\ cb' = update_value(out, last, cb).log

Receive(payload) ==
    /\ Len(cb) < MaxCallbacks
    /\ Received(payload, from_knx(rv, payload))
    /\ UNCHANGED <<rv, tx, stage, dptVars, gcVars>>

NextRV == \E payload \in WirePayloads : Receive(payload)

SpecRV == InitRV /\ [][NextRV]_vars

(***************************************************************************)
(* The group communication helpers on one telegram queue: SpecGC.          *)
(***************************************************************************)
InitGC ==
    /\ telegrams = <<>>
    /\ accepted = <<>>
    /\ res = NoOutcome
    /\ rd = ReadIdle
    /\ stage = "running"
    /\ IdleDPT
    /\ IdleRV

\* a helper call returned: its outcome, the queue it leaves, and the call in
\* accepted when it returned normally
Called(call, apci, ga) ==
    /\ telegrams' = call.telegrams
    /\ res' = call.out
    /\ accepted' = IF call.out.ok
                   THEN Append(accepted, [apci |-> apci, ga |-> ga])
                   ELSE accepted

GroupValueWrite(ga, value, value_type) ==
    /\ Len(telegrams) < MaxTelegrams
    /\ Called(group_value_write(telegrams, ga, value, value_type),
              "GroupValueWrite", ga)
    /\ UNCHANGED <<rd, stage, dptVars, rvVars>>

GroupValueResponse(ga, value, value_type) ==
    /\ Len(telegrams) < MaxTelegrams
    /\ Called(group_value_response(telegrams, ga, value, value_type),
              "GroupValueResponse", ga)
    /\ UNCHANGED <<rd, stage, dptVars, rvVars>>

GroupValueRead(ga) ==
    /\ Len(telegrams) < MaxTelegrams
    /\ Called(group_value_read(telegrams, ga), "GroupValueRead", ga)
    /\ UNCHANGED <<rd, stage, dptVars, rvVars>>

\* read_group_value up to the await: the transcoder is resolved, then the
\* value reader sends its read request and waits
ReadStart(ga, value_type) ==
    /\ rd.pc \in {"idle", "done"}
    /\ Len(telegrams) < MaxTelegrams
    /\ LET transcoder == parse_dpt(value_type)
       IN  IF transcoder.ok
           THEN /\ rd' = [pc |-> "awaiting", value_type |-> value_type,
                          transcoder |-> transcoder.val,
                          response |-> NoResponse,
                          out |-> Raise("not called", ReadNone)]
                /\ telegrams' = send_group_read(telegrams, ga)
                /\ accepted' = Append(accepted,
                                      [apci |-> "GroupValueRead", ga |-> ga])
           ELSE /\ rd' = [pc |-> "done", value_type |-> value_type,
                          transcoder |-> "none", response |-> NoResponse,
                          out |-> Raise(transcoder.err, ReadNone)]
                /\ UNCHANGED <<telegrams, accepted>>
    /\ UNCHANGED <<res, stage, dptVars, rvVars>>

\* value_reader.read() returns response and read_group_value runs to its end
ReadResolve(response) ==
    /\ rd.pc = "awaiting"
    /\ rd' = [rd EXCEPT !.pc = "done", !.response = response,
                        !.out = read_group_value(rd.transcoder, response)]
    /\ UNCHANGED <<telegrams, accepted, res, stage, dptVars, rvVars>>

NextGC ==
    \/ \E ga \in GroupAddresses, a \in SendArgs :
          GroupValueWrite(ga, a[1], a[2])
    \/ \E ga \in GroupAddresses, a \in SendArgs :
          GroupValueResponse(ga, a[1], a[2])
    \/ \E ga \in GroupAddresses : GroupValueRead(ga)
    \/ \E ga \in GroupAddresses, t \in ValueTypes : ReadStart(ga, t)
    \/ \E response \in Responses : ReadResolve(response)

SpecGC == InitGC /\ [][NextGC]_vars

(***************************************************************************)
(* Properties of the transcoders, checked under SpecDPT.                   *)
(***************************************************************************)
IsNumber(a) == a.form \in {"int", "prod", "dec"}

\* raw = round(value / resolution), as the specification defines it
RoundedRaw ==
    FRoundInt(FDiv(float(PyValue(arg)).val, float(resolution(dpt)).val))

\* the two bytes of raw as a big-endian two's-complement integer
BigEndian16(raw) == <<(raw % 65536) \div 256, raw % 256>>

\* C1: whenever to_knx returns a payload for a numeric value v, the payload
\* is the big-endian two's-complement encoding of round(v / resolution),
\* the nearest integer and not the truncation toward zero.
C1_EncodeRoundsToNearest ==
    (stage # "input" /\ IsNumber(arg) /\ enc.ok)
        => enc.val = DPTArray(BigEndian16(RoundedRaw))

\* the argument is n * resolution for an integer n in [-32768, 32767]
IsMultiple ==
    LET r == resolution(dpt)
    IN  IF r.t = "int"
        THEN /\ arg.form = "int"
             /\ arg.num % r.i = 0
             /\ arg.num \div r.i \in -32768..32767
        ELSE /\ arg.form = "prod"
             /\ arg.num \in -32768..32767

MultipleOf ==
    IF resolution(dpt).t = "int" THEN arg.num \div resolution(dpt).i
    ELSE arg.num

\* C2: for n in [-32768, 32767], from_knx(to_knx(n * r)) succeeds; it equals
\* n * r for the integer resolutions and is k * r for some k within one of n
\* (at most one unit of resolution away) for the resolution 0.01.
C2_RoundTrip ==
    (stage # "input" /\ IsMultiple) =>
        /\ enc.ok
        /\ stage = "decoded" =>
            /\ dec.ok
            /\ IF resolution(dpt).t = "int"
               THEN dec.val = PyInt(MultipleOf * resolution(dpt).i)
               ELSE \E k \in (MultipleOf - 1)..(MultipleOf + 1) :
                       dec.val = PyFloat(FMul(FFromInt(k), Hundredth))

\* 29 * 0.01 is decoded as 28 * 0.01: one unit of resolution away
C2_Witness ==
    /\ stage = "decoded"
    /\ dpt = "percentV16"
    /\ arg = ArgProd(29)
    /\ dec.val = PyFloat(FMul(FFromInt(28), Hundredth))

\* C3: to_knx raises ConversionError whenever the scaled raw integer
\* round(value / resolution) is outside [-32768, 32767], and every payload
\* it returns is an array of exactly two bytes.
C3_RejectsOutOfRange ==
    (stage # "input" /\ IsNumber(arg)) =>
        /\ RoundedRaw \notin -32768..32767
              => enc = Raise("ConversionError", NoPayload)
        /\ enc.ok =>
              /\ enc.val.kind = "array"
              /\ Len(enc.val.value) = 2
              /\ \A i \in 1..2 : enc.val.value[i] \in 0..255

\* C10: every failure of to_knx is a ConversionError, also for NaN, the
\* infinities and non-numeric values.
C10_OnlyConversionError ==
    (stage # "input" /\ ~enc.ok) => enc.err = "ConversionError"

(***************************************************************************)
(* Properties of the remote values' to_knx and from_knx, checked under     *)
(* SpecCodec.                                                              *)
(***************************************************************************)
ToKnxCalled == stage # "input" /\ tx # NoCallTx

\* the payload has the kind and the length the raw remote value expects
Fits(self, payload) ==
    IF self.payload_length = 0 THEN payload.kind = "binary"
    ELSE payload.kind = "array" /\ Len(payload.value) = self.payload_length

\* C4: RemoteValueRaw.from_knx raises CouldNotParseTelegram for every payload
\* whose kind or length does not match payload_length; with payload_length 0
\* only a binary payload matches, so every array, the empty one included, is
\* rejected.
C4_RawRejectsMismatch ==
    (stage = "decoded" /\ rv.class = "raw" /\ ~Fits(rv, rx.payload))
        => rx.out = Raise("CouldNotParseTelegram", PyNone)

\* C5: RemoteValueScaling.to_knx returns, for every value and every range,
\* an array of one element that is a byte, 0..255.
C5_ScalingOneByte ==
    (ToKnxCalled /\ rv.class = "scaling") =>
        /\ tx.out.ok
        /\ tx.out.val.kind = "array"
        /\ Len(tx.out.val.value) = 1
        /\ tx.out.val.value[1] \in 0..255

\* the n bytes of v, most significant first
UnsignedBigEndian(v, n) == [i \in 1..n |-> (v \div 256^(n - i)) % 256]

\* C6: for payload_length N > 0 and an int v, RemoteValueRaw.to_knx returns
\* the N-byte big-endian unsigned encoding of v when 0 <= v < 256^N, and
\* from_knx of that payload returns v; for every other int it raises
\* ConversionError.
C6_RawBigEndian ==
    (ToKnxCalled /\ rv.class = "raw" /\ rv.payload_length > 0
     /\ tx.value.t = "int") =>
        IF 0 <= tx.value.i /\ tx.value.i < 256^rv.payload_length
        THEN /\ tx.out = Return(DPTArray(UnsignedBigEndian(tx.value.i,
                                                           rv.payload_length)))
             /\ stage = "decoded" => rx.out = Return(tx.value)
        ELSE tx.out = Raise("ConversionError", NoPayload)

\* 500 is sent as the bytes 1, 244 and read back as 500
C6_Witness ==
    /\ stage = "decoded"
    /\ rv = RemoteValueRaw(2)
    /\ tx.value = PyInt(500)
    /\ tx.out = Return(DPTArray(<<1, 244>>))
    /\ rx.out = Return(PyInt(500))

(***************************************************************************)
(* Properties of a remote value receiving payloads, checked under SpecRV.  *)
(***************************************************************************)
\* an array of the wrong length for a remote value that expects an array
WrongLength(self, payload) ==
    /\ self.payload_length > 0
    /\ payload.kind = "array"
    /\ Len(payload.value) # self.payload_length

QueueMatchesCalls ==
    /\ Len(telegrams) = Len(accepted)
    /\ \A i \in 1..Len(telegrams) :
          /\ telegrams[i].destination_address = accepted[i].ga
          /\ telegrams[i].apci = accepted[i].apci

\* C8: a send helper whose value cannot be converted raises and leaves the
\* queue as it was; one that returns has appended exactly one telegram; so
\* the queue always holds one telegram per returned call, in call order.
C8_OneTelegramPerCall ==
    /\ []QueueMatchesCalls
    /\ [][rd' = rd =>
            IF res'.ok
            THEN /\ Len(telegrams') = Len(telegrams) + 1
                 /\ SubSeq(telegrams', 1, Len(telegrams)) = telegrams
            ELSE telegrams' = telegrams]_vars

\* after a write of 19 as percentV16 was queued, a write of 400 raised
\* ConversionError and the queue still holds the one telegram
C8_Witness ==
    /\ res = Raise("ConversionError", NoPayload)
    /\ telegrams = <<Telegram("1/2/3", "GroupValueWrite",
                              DPTArray(<<7, 108>>))>>

\* the two bytes as a big-endian two's-complement integer
Signed16(bytes) == ((bytes[1] * 256 + bytes[2] + 32768) % 65536) - 32768

\* the value of raw units of a transcoder
Scaled(value_type, raw) ==
    IF value_type = "percentV16" THEN PyFloat(FMul(FFromInt(raw), Hundredth))
    ELSE IF value_type = "delta_time_10ms" THEN PyInt(raw * 10)
    ELSE IF value_type = "delta_time_100ms" THEN PyInt(raw * 100)
    ELSE PyInt(raw)

\* C9: once the value reader resolves, read_group_value is done in that
\* step: with None when no response arrived, with the content of the
\* response's payload when no value_type was given, and with the
\* transcoder-decoded value when one was given (the transcoder's error when
\* the payload is not two bytes).
C9_ReadCompletes ==
    [][(rd.pc = "awaiting" /\ rd' # rd) =>
         /\ rd'.pc = "done"
         /\ IF rd'.response = NoResponse THEN rd'.out = Return(ReadNone)
            ELSE IF rd.value_type = "none"
            THEN rd'.out = Return(ReadContent(rd'.response.payload))
            ELSE IF /\ rd'.response.payload.kind = "array"
                    /\ Len(rd'.response.payload.value) = 2
            THEN rd'.out = Return(ReadValue(Scaled(rd.value_type,
                              Signed16(rd'.response.payload.value))))
            ELSE ~rd'.out.ok]_vars

\* a read as percentV16 answered with the bytes 255, 237 returns -19 * 0.01
C9_Witness ==
    /\ rd.pc = "done"
    /\ rd.value_type = "percentV16"
    /\ rd.response.payload = DPTArray(<<255, 237>>)
    /\ rd.out = Return(ReadValue(PyFloat(FMul(FFromInt(-19), Hundredth))))

====
